---------------------------- MODULE Spec2Model ----------------------------
(***************************************************************************)
(* A model of generate-token.py: the script that builds a claims payload   *)
(* from two readings of the wall clock, signs it with jwt.encode (HS256)   *)
(* under the literal SECRET and prints the token, the payload and usage    *)
(* instructions.                                                           *)
(*                                                                         *)
(* Text is modelled as the sequence of its bytes (all of the script's text *)
(* is ASCII), so that JSON serialisation, base64url encoding and the       *)
(* f-strings of the print statements are computed, not assumed.            *)
(*                                                                         *)
(* Two invocations of the script are modelled, the second started after    *)
(* the first has exited, on one machine: they share the wall clock, the    *)
(* local time zone and the (mathematical) function HMAC-SHA256.            *)
(*                                                                         *)
(* The model starts each run after the imports of lines 7-9 have           *)
(* succeeded, and takes standard output to be writable.                    *)
(***************************************************************************)
EXTENDS Integers, Sequences, FiniteSets

(***************************************************************************)
(* Bounds of the model.                                                    *)
(***************************************************************************)
\* The wall clock is counted in ticks; datetime has 10^6 ticks per second.
TicksPerSec == 2
\* The most ticks the clock advances between two consecutive readings.
MaxAdvance == 2
\* Unix time (seconds) of tick 0 of the model: 2026-03-28T12:00:00Z.
StartSec == 1774699200
\* How many candidate values of an HMAC-SHA256 digest the model draws from.
NumDigests == 2

\* The two invocations of the script.
Runs == {1, 2}

(***************************************************************************)
(* Bytes and text.                                                         *)
(***************************************************************************)
\* the i-th byte of s, 0 past its ends
At(s, i) == IF i \in 1..Len(s) THEN s[i] ELSE 0

RECURSIVE Repeat(_, _)
\* Python's s * n for a text s
Repeat(s, n) == IF n <= 0 THEN <<>> ELSE s \o Repeat(s, n - 1)

RECURSIVE IntToDec(_)
\* the decimal digits of a natural number, as json.dumps writes an int
IntToDec(n) ==
    IF n < 10 THEN <<48 + n>> ELSE Append(IntToDec(n \div 10), 48 + (n % 10))

NL == <<10>>
QUOTE == <<34>>
DOT == <<46>>

\* "super-secret-key-change-in-production"
SECRET ==
    <<115, 117, 112, 101, 114, 45, 115, 101, 99, 114, 101, 116, 45, 107, 101,
      121, 45, 99, 104, 97, 110, 103, 101, 45, 105, 110, 45, 112, 114, 111,
      100, 117, 99, 116, 105, 111, 110>>

\* "sub"
K_sub == <<115, 117, 98>>
\* "email"
K_email == <<101, 109, 97, 105, 108>>
\* "iat"
K_iat == <<105, 97, 116>>
\* "exp"
K_exp == <<101, 120, 112>>
\* "user123"
V_sub == <<117, 115, 101, 114, 49, 50, 51>>
\* "user@example.com"
V_email ==
    <<117, 115, 101, 114, 64, 101, 120, 97, 109, 112, 108, 101, 46, 99, 111,
      109>>

(***************************************************************************)
(* JSON values and mappings.  A Python dict keeps its insertion order, so  *)
(* a mapping is the sequence of its items.                                 *)
(***************************************************************************)
JStr(s) == [t |-> "str", s |-> s, n |-> 0]
JInt(n) == [t |-> "int", s |-> <<>>, n |-> n]
Item(k, v) == [k |-> k, v |-> v]

\* json.dumps of a str (the script's strings need no escaping) or an int
JsonValue(v) == IF v.t = "str" THEN QUOTE \o v.s \o QUOTE ELSE IntToDec(v.n)

RECURSIVE JsonItems(_, _, _, _)
\* the items of a mapping, each written indent key ": or :" value
JsonItems(d, itemSep, keySep, i) ==
    IF i > Len(d) THEN <<>>
    ELSE QUOTE \o d[i].k \o QUOTE \o keySep \o JsonValue(d[i].v)
         \o (IF i < Len(d) THEN itemSep ELSE <<>>)
         \o JsonItems(d, itemSep, keySep, i + 1)

\* json.dumps(d, separators=(",", ":")): what jwt.encode serialises
JsonCompact(d) == <<123>> \o JsonItems(d, <<44>>, <<58>>, 1) \o <<125>>

\* json.dumps(d, indent=2) of a non-empty mapping
JsonIndent2(d) ==
    <<123, 10, 32, 32>> \o JsonItems(d, <<44, 10, 32, 32>>, <<58, 32>>, 1)
    \o <<10, 125>>

(***************************************************************************)
(* base64url without padding (RFC 7515, section 2), as jwt.encode writes   *)
(* each segment.                                                           *)
(***************************************************************************)
\* "A-Za-z0-9-_"
B64UrlAlphabet ==
    <<65, 66, 67, 68, 69, 70, 71, 72, 73, 74, 75, 76, 77, 78, 79, 80, 81, 82,
      83, 84, 85, 86, 87, 88, 89, 90, 97, 98, 99, 100, 101, 102, 103, 104,
      105, 106, 107, 108, 109, 110, 111, 112, 113, 114, 115, 116, 117, 118,
      119, 120, 121, 122, 48, 49, 50, 51, 52, 53, 54, 55, 56, 57, 45, 95>>

B64Char(v) == B64UrlAlphabet[v + 1]

\* the i-th 6-bit group of the bytes b (bits past the end are 0)
Sextet(b, i) ==
    LET g == (i - 1) \div 4
        b1 == At(b, 3 * g + 1)
        b2 == At(b, 3 * g + 2)
        b3 == At(b, 3 * g + 3)
    IN  CASE (i - 1) % 4 = 0 -> b1 \div 4
          [] (i - 1) % 4 = 1 -> (b1 % 4) * 16 + b2 \div 16
          [] (i - 1) % 4 = 2 -> (b2 % 16) * 4 + b3 \div 64
          [] (i - 1) % 4 = 3 -> b3 % 64

\* base64.urlsafe_b64encode with its "=" padding left on
base64url_encode_padded(b) ==
    [i \in 1..(4 * ((Len(b) + 2) \div 3)) |->
        IF i <= (Len(b) * 4 + 2) \div 3 THEN B64Char(Sextet(b, i)) ELSE 61]

\* base64.urlsafe_b64encode(b).replace(b"=", b"")
base64url_encode(b) ==
    [i \in 1..((Len(b) * 4 + 2) \div 3) |-> B64Char(Sextet(b, i))]

(***************************************************************************)
(* The literal texts of the print statements (lines 25-43) and of the      *)
(* token header.                                                           *)
(***************************************************************************)
\* 'VALID JWT TOKEN FOR TESTING'
T_Title ==
    <<86, 65, 76, 73, 68, 32, 74, 87, 84, 32, 84, 79, 75, 69, 78, 32,
      70, 79, 82, 32, 84, 69, 83, 84, 73, 78, 71>>
\* '\nToken:\n'
T_TokenLabel ==
    <<10, 84, 111, 107, 101, 110, 58, 10>>
\* 'Payload:'
T_PayloadLabel ==
    <<80, 97, 121, 108, 111, 97, 100, 58>>
\* 'USAGE INSTRUCTIONS:\n'
T_Usage ==
    <<85, 83, 65, 71, 69, 32, 73, 78, 83, 84, 82, 85, 67, 84, 73, 79,
      78, 83, 58, 10>>
\* '1. PowerShell:'
T_PowerShell ==
    <<49, 46, 32, 80, 111, 119, 101, 114, 83, 104, 101, 108, 108, 58>>
\* '   $token = "'
T_PsAssign ==
    <<32, 32, 32, 36, 116, 111, 107, 101, 110, 32, 61, 32, 34>>
\* '   $headers = @{ "Authorization" = "Bearer $token"; "Content-Type" = "application/json" }'
T_PsHeaders ==
    <<32, 32, 32, 36, 104, 101, 97, 100, 101, 114, 115, 32, 61, 32, 64,
      123, 32, 34, 65, 117, 116, 104, 111, 114, 105, 122, 97, 116, 105,
      111, 110, 34, 32, 61, 32, 34, 66, 101, 97, 114, 101, 114, 32, 36,
      116, 111, 107, 101, 110, 34, 59, 32, 34, 67, 111, 110, 116, 101,
      110, 116, 45, 84, 121, 112, 101, 34, 32, 61, 32, 34, 97, 112, 112,
      108, 105, 99, 97, 116, 105, 111, 110, 47, 106, 115, 111, 110, 34,
      32, 125>>
\* '   Invoke-WebRequest http://localhost:3000/notifications/health -Headers $headers'
T_PsInvoke ==
    <<32, 32, 32, 73, 110, 118, 111, 107, 101, 45, 87, 101, 98, 82, 101,
      113, 117, 101, 115, 116, 32, 104, 116, 116, 112, 58, 47, 47, 108,
      111, 99, 97, 108, 104, 111, 115, 116, 58, 51, 48, 48, 48, 47, 110,
      111, 116, 105, 102, 105, 99, 97, 116, 105, 111, 110, 115, 47, 104,
      101, 97, 108, 116, 104, 32, 45, 72, 101, 97, 100, 101, 114, 115,
      32, 36, 104, 101, 97, 100, 101, 114, 115>>
\* '\n2. Linux/Mac (curl):'
T_Curl ==
    <<10, 50, 46, 32, 76, 105, 110, 117, 120, 47, 77, 97, 99, 32, 40,
      99, 117, 114, 108, 41, 58>>
\* '   curl -H "Authorization: Bearer '
T_CurlPrefix ==
    <<32, 32, 32, 99, 117, 114, 108, 32, 45, 72, 32, 34, 65, 117, 116,
      104, 111, 114, 105, 122, 97, 116, 105, 111, 110, 58, 32, 66, 101,
      97, 114, 101, 114, 32>>
\* '" http://localhost:3000/notifications/health'
T_CurlSuffix ==
    <<34, 32, 104, 116, 116, 112, 58, 47, 47, 108, 111, 99, 97, 108,
      104, 111, 115, 116, 58, 51, 48, 48, 48, 47, 110, 111, 116, 105,
      102, 105, 99, 97, 116, 105, 111, 110, 115, 47, 104, 101, 97, 108,
      116, 104>>
\* '\n3. Update simple-test.ps1:'
T_Update ==
    <<10, 51, 46, 32, 85, 112, 100, 97, 116, 101, 32, 115, 105, 109,
      112, 108, 101, 45, 116, 101, 115, 116, 46, 112, 115, 49, 58>>
\* '   Change line: [string]$Token = "'
T_ChangePrefix ==
    <<32, 32, 32, 67, 104, 97, 110, 103, 101, 32, 108, 105, 110, 101,
      58, 32, 91, 115, 116, 114, 105, 110, 103, 93, 36, 84, 111, 107,
      101, 110, 32, 61, 32, 34>>
\* 'alg'
T_Alg ==
    <<97, 108, 103>>
\* 'HS256'
T_HS256 ==
    <<72, 83, 50, 53, 54>>
\* 'typ'
T_Typ ==
    <<116, 121, 112>>
\* 'JWT'
T_JWT ==
    <<74, 87, 84>>
\* "=" * 50
T_Rule == Repeat(<<61>>, 50)

(***************************************************************************)
(* Wall clock and local time.  A naive datetime is the local wall time in  *)
(* ticks since the local reading of tick 0; tz gives the local UTC offset  *)
(* (seconds) in force now and the one in force a year from now (they       *)
(* differ when a daylight-saving change falls on different dates in the    *)
(* two years).                                                             *)
(***************************************************************************)
SecondsPerDay == 86400
DaysValid == 365

Zones ==
    { [now |-> 0, later |-> 0],
      [now |-> 3600, later |-> 0],
      [now |-> 0, later |-> 3600] }

\* timedelta(days=0): no validity period added
timedelta_none(d) == 0

\* timedelta(days=d), in ticks
timedelta(d) == d * SecondsPerDay * TicksPerSec

\* the UTC offset (seconds) the C library gives for a local wall time
utcoffset(zone, dt) ==
    IF dt < timedelta(DaysValid) \div 2 THEN zone.now ELSE zone.later

\* datetime.now(): the naive local wall time when the clock reads c
datetime_now(zone, c) == c + zone.now * TicksPerSec

\* int(dt.timestamp()) of a naive local dt: whole Unix seconds
int_timestamp(zone, dt) ==
    StartSec + (dt - utcoffset(zone, dt) * TicksPerSec) \div TicksPerSec

\* line 18: int(datetime.now().timestamp())
IatAt(zone, c) == int_timestamp(zone, datetime_now(zone, c))

\* line 19: int((datetime.now() + timedelta(days=365)).timestamp())
ExpAt(zone, c) ==
    int_timestamp(zone, datetime_now(zone, c) + timedelta(DaysValid))

\* lines 15-20: the dict, from the two values already computed
MakePayload(iatValue, expValue) ==
    << Item(K_sub, JStr(V_sub)),
       Item(K_email, JStr(V_email)),
       Item(K_iat, JInt(iatValue)),
       Item(K_exp, JInt(expValue)) >>

(***************************************************************************)
(* jwt.encode(payload, key, algorithm="HS256").                            *)
(*                                                                         *)
(* HMAC-SHA256 is a fixed function whose values the model does not         *)
(* compute.  It is modelled as a collision-free random oracle: the table   *)
(* `oracle` holds the digests of the (key, message) pairs evaluated so     *)
(* far; a pair evaluated again has the same digest; a new pair has any     *)
(* candidate digest no other pair has.  What HMAC does to its key before   *)
(* hashing is modelled as it is: a key shorter than the hash's block is    *)
(* padded with zero bytes to the block size (RFC 2104, section 2).         *)
(***************************************************************************)
HmacBlockSize == 64
DigestSize == 32

\* the i-th candidate digest: 32 bytes
Digest(i) == [j \in 1..DigestSize |-> (i * 59 + j * 83 + 168) % 256]
Digests == { Digest(i) : i \in 1..NumDigests }

\* HMAC's key preparation, for a key no longer than the block
PadKey(key) == key \o Repeat(<<0>>, HmacBlockSize - Len(key))

MacEntries(table, key, msg) ==
    { e \in table : e.key = PadKey(key) /\ e.msg = msg }

\* the digests HMAC-SHA256(key, msg) may have, given the table
HmacCandidates(table, key, msg) ==
    IF MacEntries(table, key, msg) # {}
    THEN { e.mac : e \in MacEntries(table, key, msg) }
    ELSE Digests \ { e.mac : e \in table }

\* the table after HMAC-SHA256(key, msg) was found to be mac
Record(table, key, msg, mac) ==
    table \cup { [key |-> PadKey(key), msg |-> msg, mac |-> mac] }

\* {"alg":"HS256","typ":"JWT"}
JwtHeader == << Item(T_Alg, JStr(T_HS256)), Item(T_Typ, JStr(T_JWT)) >>

\* base64url(header) "." base64url(payload): what is signed
SigningInput(p) ==
    base64url_encode(JsonCompact(JwtHeader)) \o DOT
    \o base64url_encode(JsonCompact(p))

\* a token whose signature segment is left empty
jwt_encode_unsigned(p, mac) == SigningInput(p) \o DOT

\* the token, given the digest of its signing input
jwt_encode(p, mac) == SigningInput(p) \o DOT \o base64url_encode(mac)

(***************************************************************************)
(* The statements of the script, by line.                                  *)
(***************************************************************************)
PrintLines == <<25, 26, 27, 28, 29, 30, 31, 34, 35, 36, 37, 38, 39, 40, 41,
                42, 43>>

IsPrintLine(l) == \E i \in 1..Len(PrintLines) : PrintLines[i] = l

\* the statement executed after line l (0: none, the script ends)
NextLine(l) ==
    IF l = 18 THEN 19
    ELSE IF l = 19 THEN 23
    ELSE IF l = 23 THEN PrintLines[1]
    ELSE LET i == CHOOSE j \in 1..Len(PrintLines) : PrintLines[j] = l
         IN  IF i < Len(PrintLines) THEN PrintLines[i + 1] ELSE 0

\* the curl line showing only the first two segments of the token
PrintArgCurlCut(l, tok, p) ==
    CASE l = 25 -> NL \o T_Rule
      [] l = 26 -> T_Title
      [] l = 27 -> T_Rule
      [] l = 28 -> T_TokenLabel \o tok \o NL
      [] l = 29 -> T_PayloadLabel
      [] l = 30 -> JsonIndent2(p)
      [] l = 31 -> NL \o T_Rule \o NL
      [] l = 34 -> T_Usage
      [] l = 35 -> T_PowerShell
      [] l = 36 -> T_PsAssign \o tok \o QUOTE
      [] l = 37 -> T_PsHeaders
      [] l = 38 -> T_PsInvoke
      [] l = 39 -> T_Curl
      [] l = 40 -> T_CurlPrefix \o SigningInput(p) \o T_CurlSuffix
      [] l = 41 -> T_Update
      [] l = 42 -> T_ChangePrefix \o tok \o QUOTE
      [] l = 43 -> NL \o T_Rule \o NL

\* the argument of the print call of line l
PrintArg(l, tok, p) ==
    CASE l = 25 -> NL \o T_Rule
      [] l = 26 -> T_Title
      [] l = 27 -> T_Rule
      [] l = 28 -> T_TokenLabel \o tok \o NL
      [] l = 29 -> T_PayloadLabel
      [] l = 30 -> JsonIndent2(p)
      [] l = 31 -> NL \o T_Rule \o NL
      [] l = 34 -> T_Usage
      [] l = 35 -> T_PowerShell
      [] l = 36 -> T_PsAssign \o tok \o QUOTE
      [] l = 37 -> T_PsHeaders
      [] l = 38 -> T_PsInvoke
      [] l = 39 -> T_Curl
      [] l = 40 -> T_CurlPrefix \o tok \o T_CurlSuffix
      [] l = 41 -> T_Update
      [] l = 42 -> T_ChangePrefix \o tok \o QUOTE
      [] l = 43 -> NL \o T_Rule \o NL

\* what print(x) writes to standard output
PrintText(l, tok, p) == PrintArg(l, tok, p) \o NL

(***************************************************************************)
(* State.                                                                  *)
(***************************************************************************)
VARIABLES
    clock,      \* the wall clock: ticks since StartSec
    tz,         \* the local time zone's offsets (seconds)
    oracle,     \* HMAC-SHA256 evaluated so far: {[key, msg, mac]}
    secret,     \* the module global SECRET (line 12)
    status,     \* per run: "idle", "running", "exited"
    pc,         \* per run: the line about to be executed (0: none)
    iat,        \* per run: the value computed by line 18
    payload,    \* per run: the dict of lines 15-20 (<<>>: not yet built)
    token,      \* per run: the value of jwt.encode (<<>>: not yet set)
    signCalls,  \* per run: how many times jwt.encode was called
    stdout,     \* per run: what each print call wrote, in order
    stderr,     \* per run: the diagnostics written (the traceback)
    exitCode,   \* per run: the exit status (-1: still running)
    network,    \* the HTTP requests sent
    files,      \* the files written
    environ     \* the environment variables set

vars == << clock, tz, oracle, secret, status, pc, iat, payload, token,
           signCalls, stdout, stderr, exitCode, network, files, environ >>

outside == << network, files, environ, secret >>

Init ==
    /\ clock \in 0..(TicksPerSec - 1)
    /\ tz \in Zones
    /\ oracle = {}
    /\ secret = SECRET
    /\ status = [r \in Runs |-> "idle"]
    /\ pc = [r \in Runs |-> 0]
    /\ iat = [r \in Runs |-> 0]
    /\ payload = [r \in Runs |-> <<>>]
    /\ token = [r \in Runs |-> <<>>]
    /\ signCalls = [r \in Runs |-> 0]
    /\ stdout = [r \in Runs |-> <<>>]
    /\ stderr = [r \in Runs |-> <<>>]
    /\ exitCode = [r \in Runs |-> -1]
    /\ network = {}
    /\ files = {}
    /\ environ = {}

\* The script is invoked; some time has passed since the previous event.
Start(r) ==
    /\ status[r] = "idle"
    /\ \A q \in Runs : q < r => status[q] = "exited"
    /\ \E d \in 0..MaxAdvance : clock' = clock + d
    /\ status' = [status EXCEPT ![r] = "running"]
    /\ pc' = [pc EXCEPT ![r] = 18]
    /\ UNCHANGED << tz, oracle, iat, payload, token, signCalls, stdout,
                    stderr, exitCode, outside >>

\* line 18: the first reading of the clock
ReadIat(r) ==
    /\ status[r] = "running" /\ pc[r] = 18
    /\ iat' = [iat EXCEPT ![r] = IatAt(tz, clock)]
    /\ pc' = [pc EXCEPT ![r] = NextLine(18)]
    /\ UNCHANGED << clock, tz, oracle, status, payload, token, signCalls,
                    stdout, stderr, exitCode, outside >>

\* lines 19, 15-20: the second reading of the clock, some ticks after the
\* first, and the dict bound to `payload`
BuildPayload(r) ==
    /\ status[r] = "running" /\ pc[r] = 19
    /\ \E d \in 0..MaxAdvance :
          /\ clock' = clock + d
          /\ payload' = [payload EXCEPT
                           ![r] = MakePayload(iat[r], ExpAt(tz, clock + d))]
    /\ pc' = [pc EXCEPT ![r] = NextLine(19)]
    /\ UNCHANGED << tz, oracle, status, iat, token, signCalls, stdout,
                    stderr, exitCode, outside >>

\* jwt.encode called with a key that is not SECRET
SignOkOtherKey(r) ==
    /\ status[r] = "running" /\ pc[r] = 23
    /\ \E mac \in HmacCandidates(oracle, <<>>, SigningInput(payload[r])) :
          /\ oracle' = Record(oracle, <<>>, SigningInput(payload[r]), mac)
          /\ token' = [token EXCEPT ![r] = jwt_encode(payload[r], mac)]
    /\ signCalls' = [signCalls EXCEPT ![r] = @ + 1]
    /\ pc' = [pc EXCEPT ![r] = NextLine(23)]
    /\ UNCHANGED << clock, tz, status, iat, payload, stdout, stderr,
                    exitCode, outside >>

\* line 23, jwt.encode returns
SignOk(r) ==
    /\ status[r] = "running" /\ pc[r] = 23
    /\ \E mac \in HmacCandidates(oracle, secret, SigningInput(payload[r])) :
          /\ oracle' = Record(oracle, secret, SigningInput(payload[r]), mac)
          /\ token' = [token EXCEPT ![r] = jwt_encode(payload[r], mac)]
    /\ signCalls' = [signCalls EXCEPT ![r] = @ + 1]
    /\ pc' = [pc EXCEPT ![r] = NextLine(23)]
    /\ UNCHANGED << clock, tz, status, iat, payload, stdout, stderr,
                    exitCode, outside >>

\* the exception of jwt.encode caught and ignored: the script goes on
SignFailSwallowed(r) ==
    /\ status[r] = "running" /\ pc[r] = 23
    /\ signCalls' = [signCalls EXCEPT ![r] = @ + 1]
    /\ stderr' = [stderr EXCEPT ![r] = Append(@, "Traceback")]
    /\ pc' = [pc EXCEPT ![r] = NextLine(23)]
    /\ UNCHANGED << clock, tz, oracle, status, iat, payload, token, stdout,
                    exitCode, outside >>

\* the exception of jwt.encode reported, and the script ended with 0
SignFailExitZero(r) ==
    /\ status[r] = "running" /\ pc[r] = 23
    /\ signCalls' = [signCalls EXCEPT ![r] = @ + 1]
    /\ stderr' = [stderr EXCEPT ![r] = Append(@, "Traceback")]
    /\ status' = [status EXCEPT ![r] = "exited"]
    /\ exitCode' = [exitCode EXCEPT ![r] = 0]
    /\ pc' = [pc EXCEPT ![r] = 0]
    /\ UNCHANGED << clock, tz, oracle, iat, payload, token, stdout,
                    outside >>

\* line 23, jwt.encode raises: nothing catches the exception, the
\* interpreter writes the traceback to standard error and exits with 1
SignFail(r) ==
    /\ status[r] = "running" /\ pc[r] = 23
    /\ signCalls' = [signCalls EXCEPT ![r] = @ + 1]
    /\ stderr' = [stderr EXCEPT ![r] = Append(@, "Traceback")]
    /\ status' = [status EXCEPT ![r] = "exited"]
    /\ exitCode' = [exitCode EXCEPT ![r] = 1]
    /\ pc' = [pc EXCEPT ![r] = 0]
    /\ UNCHANGED << clock, tz, oracle, iat, payload, token, stdout,
                    outside >>

\* a print call that also sends the request it describes (line 40)
PrintLineAndCall(r) ==
    /\ status[r] = "running" /\ IsPrintLine(pc[r])
    /\ stdout' = [stdout EXCEPT
                    ![r] = Append(@, PrintText(pc[r], token[r], payload[r]))]
    /\ pc' = [pc EXCEPT ![r] = NextLine(pc[r])]
    /\ network' = IF pc[r] = 40 THEN network \cup {token[r]} ELSE network
    /\ UNCHANGED << clock, tz, oracle, status, iat, payload, token,
                    signCalls, stderr, exitCode, files, environ, secret >>

\* a print call that refreshes iat in the dict before printing it (line 30)
PrintLineRefreshing(r) ==
    /\ status[r] = "running" /\ IsPrintLine(pc[r])
    /\ payload' = IF pc[r] = 30
                  THEN [payload EXCEPT ![r][3] = Item(K_iat, JInt(@.v.n + 1))]
                  ELSE payload
    /\ stdout' = [stdout EXCEPT
                    ![r] = Append(@, PrintText(pc[r], token[r], payload'[r]))]
    /\ pc' = [pc EXCEPT ![r] = NextLine(pc[r])]
    /\ UNCHANGED << clock, tz, oracle, status, iat, token, signCalls,
                    stderr, exitCode, outside >>

\* lines 25-43: one print call
PrintLine(r) ==
    /\ status[r] = "running" /\ IsPrintLine(pc[r])
    /\ stdout' = [stdout EXCEPT
                    ![r] = Append(@, PrintText(pc[r], token[r], payload[r]))]
    /\ pc' = [pc EXCEPT ![r] = NextLine(pc[r])]
    /\ UNCHANGED << clock, tz, oracle, status, iat, payload, token,
                    signCalls, stderr, exitCode, outside >>

\* the end of the file: the interpreter exits with 0
Exit(r) ==
    /\ status[r] = "running" /\ pc[r] = 0
    /\ status' = [status EXCEPT ![r] = "exited"]
    /\ exitCode' = [exitCode EXCEPT ![r] = 0]
    /\ UNCHANGED << clock, tz, oracle, pc, iat, payload, token, signCalls,
                    stdout, stderr, outside >>

Next ==
    \E r \in Runs :
        \/ Start(r)
        \/ ReadIat(r)
        \/ BuildPayload(r)
        \/ SignOk(r)
        \/ SignFail(r)
        \/ PrintLine(r)
        \/ Exit(r)

Spec == Init /\ [][Next]_vars

\* The interpreter keeps executing a running script.
FairSpec == Spec /\ WF_vars(Next)

(***************************************************************************)
(* Observers: what a reader of the output does with it.  These decode;     *)
(* they share nothing with the encoders above.                             *)
(***************************************************************************)
\* s.split(sep) for a one-byte separator
Split(s, sep) ==
    LET at == { i \in 1..Len(s) : s[i] = sep }
        n == Cardinality(at)
        pos(k) == CHOOSE i \in at : Cardinality({ j \in at : j < i }) = k - 1
        first(k) == IF k = 1 THEN 1 ELSE pos(k - 1) + 1
        last(k) == IF k = n + 1 THEN Len(s) ELSE pos(k) - 1
    IN  [k \in 1..(n + 1) |-> SubSeq(s, first(k), last(k))]

IsB64UrlChar(c) ==
    \/ c \in 65..90
    \/ c \in 97..122
    \/ c \in 48..57
    \/ c = 45
    \/ c = 95

\* a string that unpadded base64url can produce
IsBase64Url(s) ==
    /\ \A i \in 1..Len(s) : IsB64UrlChar(s[i])
    /\ Len(s) % 4 # 1

B64Value(c) ==
    IF c \in 65..90 THEN c - 65
    ELSE IF c \in 97..122 THEN c - 71
    ELSE IF c \in 48..57 THEN c + 4
    ELSE IF c = 45 THEN 62
    ELSE 63

\* the bytes of a string for which IsBase64Url holds: byte i takes its 8
\* bits from the 6-bit values of two neighbouring characters
base64url_decode(s) ==
    [i \in 1..((Len(s) * 3) \div 4) |->
        LET g == (i - 1) \div 3
            v1 == B64Value(At(s, 4 * g + 1))
            v2 == B64Value(At(s, 4 * g + 2))
            v3 == B64Value(At(s, 4 * g + 3))
            v4 == B64Value(At(s, 4 * g + 4))
        IN  CASE (i - 1) % 3 = 0 -> v1 * 4 + v2 \div 16
              [] (i - 1) % 3 = 1 -> (v2 % 16) * 16 + v3 \div 4
              [] (i - 1) % 3 = 2 -> (v3 % 4) * 64 + v4]

IsWs(c) == c \in {32, 10, 13, 9}
IsDigit(c) == c \in 48..57

RECURSIVE SkipWs(_, _)
SkipWs(s, i) == IF IsWs(At(s, i)) THEN SkipWs(s, i + 1) ELSE i

RECURSIVE StringEnd(_, _)
\* the index of the quote closing a string whose text starts at i (0: none;
\* escapes are not read)
StringEnd(s, i) ==
    IF i > Len(s) \/ s[i] = 92 THEN 0
    ELSE IF s[i] = 34 THEN i
    ELSE StringEnd(s, i + 1)

RECURSIVE DigitsEnd(_, _)
DigitsEnd(s, i) == IF IsDigit(At(s, i)) THEN DigitsEnd(s, i + 1) ELSE i

RECURSIVE DecToInt(_)
DecToInt(ds) ==
    IF ds = <<>> THEN 0
    ELSE DecToInt(SubSeq(ds, 1, Len(ds) - 1)) * 10 + (ds[Len(ds)] - 48)

\* a JSON string or a JSON natural number at i: [ok, v, next]
ParseValue(s, i) ==
    IF At(s, i) = 34 THEN
        LET e == StringEnd(s, i + 1)
        IN  IF e = 0 THEN [ok |-> FALSE, v |-> JInt(0), next |-> i]
            ELSE [ok |-> TRUE, v |-> JStr(SubSeq(s, i + 1, e - 1)),
                  next |-> e + 1]
    ELSE IF IsDigit(At(s, i)) THEN
        LET e == DigitsEnd(s, i)
        IN  [ok |-> TRUE, v |-> JInt(DecToInt(SubSeq(s, i, e - 1))),
             next |-> e]
    ELSE [ok |-> FALSE, v |-> JInt(0), next |-> i]

ParseFailed == [ok |-> FALSE, items |-> <<>>]

RECURSIVE ParseMembers(_, _, _)
\* the members of an object from the key at i on, after those of acc
ParseMembers(s, i, acc) ==
    LET key == ParseValue(s, i)
        colon == SkipWs(s, key.next)
        val == ParseValue(s, SkipWs(s, colon + 1))
        after == SkipWs(s, val.next)
        items == Append(acc, Item(key.v.s, val.v))
    IN  IF ~key.ok \/ key.v.t # "str" \/ At(s, colon) # 58 \/ ~val.ok
        THEN ParseFailed
        ELSE IF At(s, after) = 44
        THEN ParseMembers(s, SkipWs(s, after + 1), items)
        ELSE IF At(s, after) = 125 /\ SkipWs(s, after + 1) > Len(s)
        THEN [ok |-> TRUE, items |-> items]
        ELSE ParseFailed

\* json.loads of a flat object of strings and natural numbers
json_loads(s) ==
    LET open == SkipWs(s, 1)
        first == SkipWs(s, open + 1)
    IN  IF At(s, open) # 123 THEN ParseFailed
        ELSE IF At(s, first) = 125 THEN
            IF SkipWs(s, first + 1) > Len(s)
            THEN [ok |-> TRUE, items |-> <<>>] ELSE ParseFailed
        ELSE ParseMembers(s, first, <<>>)

\* a mapping as the set of its items, and its keys
ItemSet(d) == { d[i] : i \in 1..Len(d) }
Keys(d) == { d[i].k : i \in 1..Len(d) }
Has(d, k) == k \in Keys(d)
Get(d, k) == (CHOOSE it \in ItemSet(d) : it.k = k).v

\* the parts of a token
Segments(tok) == Split(tok, 46)
SignatureOf(tok) == Segments(tok)[3]
ClaimsOf(tok) == json_loads(base64url_decode(Segments(tok)[2]))

\* exactly three non-empty base64url segments
WellFormedSegments(segs) ==
    /\ Len(segs) = 3
    /\ \A i \in 1..3 : IsBase64Url(segs[i]) /\ segs[i] # <<>>
WellFormed(tok) == WellFormedSegments(Segments(tok))

\* Verification of the segments of a token under a key when the clock reads
\* c, as an HS256 verifier does it: the token is well formed, its header
\* names HS256, its signature is the HMAC-SHA256 of its first two segments
\* under the key, and its exp lies in the future.  The digest of a (key,
\* message) pair that was never evaluated is a value no evaluated pair has,
\* so it is not the digest the signature holds.
VerifiesSegments(segs, key, c) ==
    /\ WellFormedSegments(segs)
    /\ LET header == json_loads(base64url_decode(segs[1]))
           claims == json_loads(base64url_decode(segs[2]))
       IN  /\ header.ok
           /\ Has(header.items, T_Alg)
           /\ Get(header.items, T_Alg) = JStr(T_HS256)
           /\ \E e \in MacEntries(oracle, key, segs[1] \o DOT \o segs[2]) :
                 base64url_decode(segs[3]) = e.mac
           /\ claims.ok
           /\ Has(claims.items, K_exp)
           /\ Get(claims.items, K_exp).t = "int"
           /\ Get(claims.items, K_exp).n > StartSec + c \div TicksPerSec

Verifies(tok, key, c) == VerifiesSegments(Segments(tok), key, c)

(***************************************************************************)
(* Vocabulary of the properties.                                           *)
(***************************************************************************)
Done(r) == status[r] = "exited"
Succeeded(r) == Done(r) /\ exitCode[r] = 0
SigningFailed(r) == stderr[r] # <<>>
Built(r) == payload[r] # <<>>
Signed(r) == token[r] # <<>>
IatOf(d) == Get(d, K_iat).n
ExpOf(d) == Get(d, K_exp).n
SameTimestamps(d1, d2) == IatOf(d1) = IatOf(d2) /\ ExpOf(d1) = ExpOf(d2)

\* the i-th print call of run r wrote pre, the run's token, suf
Shows(r, i, pre, suf) ==
    Len(stdout[r]) >= i => stdout[r][i] = pre \o token[r] \o suf

\* key is base followed by zero bytes only
ZeroExtension(key, base) ==
    /\ Len(key) >= Len(base)
    /\ SubSeq(key, 1, Len(base)) = base
    /\ \A i \in (Len(base) + 1)..Len(key) : key[i] = 0

\* the secrets verification is tried with
KeysTried ==
    { SECRET,
      SECRET \o <<0>>,
      SECRET \o <<0, 0>>,
      SECRET \o <<48>>,
      SubSeq(SECRET, 1, Len(SECRET) - 1),
      <<0>> \o SECRET,
      <<>> }

(***************************************************************************)
(* The claims.                                                             *)
(***************************************************************************)

\* C1: in every run the payload signed into the token has exp - iat equal
\* to exactly 31,536,000 seconds, whatever the clock does between the two
\* readings.
C1_ExpMinusIatIsOneYear ==
    \A r \in Runs :
        Signed(r) =>
            LET claims == ClaimsOf(token[r]).items
            IN  ExpOf(claims) - IatOf(claims) = 31536000

\* C2, as claimed: two successive successful runs always produce tokens
\* with different signature segments, and each token verifies against
\* SECRET.
C2_SignaturesAlwaysDiffer ==
    \A r1, r2 \in Runs :
        (r1 < r2 /\ Succeeded(r1) /\ Succeeded(r2)) =>
            /\ SignatureOf(token[r1]) # SignatureOf(token[r2])
            /\ Verifies(token[r1], SECRET, clock)
            /\ Verifies(token[r2], SECRET, clock)

\* C2, amended: two successive successful runs produce tokens with
\* different signature segments exactly when their iat or exp differ (two
\* runs that read the same clock seconds produce the same token), and each
\* token verifies against SECRET.
C2_SignaturesDifferWithTimestamps ==
    \A r1, r2 \in Runs :
        (r1 < r2 /\ Succeeded(r1) /\ Succeeded(r2)) =>
            /\ (SignatureOf(token[r1]) # SignatureOf(token[r2]))
                   <=> ~SameTimestamps(payload[r1], payload[r2])
            /\ Verifies(token[r1], SECRET, clock)
            /\ Verifies(token[r2], SECRET, clock)

C2_TwoRunsDifferentSeconds ==
    /\ Succeeded(1) /\ Succeeded(2)
    /\ IatOf(payload[1]) # IatOf(payload[2])
    /\ SignatureOf(token[1]) # SignatureOf(token[2])

\* C3: once the payload exists, exp is strictly greater than iat, in every
\* state up to and after the exit of the run.
C3_ExpAfterIat ==
    \A r \in Runs : Built(r) => ExpOf(payload[r]) > IatOf(payload[r])

C3_PayloadBuiltAndRunOver ==
    \E r \in Runs :
        Built(r) /\ Done(r) /\ ExpOf(payload[r]) - IatOf(payload[r]) < 31536000

\* C4: when jwt.encode fails the run is over with a nonzero exit status,
\* nothing was written to standard output before the failure, nothing is
\* written after it, and signing was attempted once only.
C4_SigningFailureIsFatalAndSilent ==
    \A r \in Runs :
        SigningFailed(r) =>
            /\ Done(r)
            /\ exitCode[r] > 0
            /\ stdout[r] = <<>>
            /\ token[r] = <<>>
            /\ signCalls[r] = 1

C4_FailedRunThenFullRun ==
    SigningFailed(1) /\ Done(1) /\ Succeeded(2) /\ stdout[2] # <<>>

C6_TokenShape ==
    \A r \in Runs :
        Signed(r) =>
            LET segs == Segments(token[r])
                claims == json_loads(base64url_decode(segs[2]))
            IN  /\ Len(segs) = 3
                /\ \A i \in 1..3 : segs[i] # <<>> /\ IsBase64Url(segs[i])
                /\ claims.ok
                /\ Len(claims.items) = 4
                /\ Keys(claims.items) = {K_sub, K_email, K_iat, K_exp}
                /\ ItemSet(claims.items) = ItemSet(payload[r])

C6_TokenEmitted ==
    \E r \in Runs : Signed(r) /\ Len(stdout[r]) >= 4 /\ WellFormed(token[r])

\* C7: every run terminates; its lines are executed in order, none twice;
\* it ends with exit code 0 exactly when signing succeeded and with a
\* nonzero exit code exactly when signing failed.
C7_TerminatesWithExitCode ==
    /\ <>(\A r \in Runs : Done(r))
    /\ [](\A r \in Runs :
            Done(r) =>
                /\ exitCode[r] = 0 <=> Signed(r)
                /\ exitCode[r] > 0 <=> SigningFailed(r)
                /\ Signed(r) # SigningFailed(r))
    /\ [][\A r \in Runs :
            /\ pc'[r] # pc[r] => (pc'[r] > pc[r] \/ pc'[r] = 0)
            /\ Done(r) => status'[r] = "exited" /\ exitCode'[r] = exitCode[r]
         ]_vars

C7_OneRunOfEachKind ==
    \E r1, r2 \in Runs :
        Done(r1) /\ exitCode[r1] = 0 /\ Done(r2) /\ exitCode[r2] = 1

\* C8: a run, successful or failed, sends no network request, writes no
\* file and changes neither the environment nor SECRET.
C8_NothingButStdout ==
    /\ network = {}
    /\ files = {}
    /\ environ = {}
    /\ secret = SECRET

C8_BothKindsOfRunOver ==
    \E r1, r2 \in Runs :
        /\ Succeeded(r1) /\ Len(stdout[r1]) = Len(PrintLines)
        /\ Done(r2) /\ SigningFailed(r2)

\* C9: the payload is built once and never modified: the mapping printed
\* under "Payload:" has the values of the mapping given to jwt.encode,
\* which are those the token's payload segment decodes to.
C9_PayloadNeverModified ==
    /\ [](\A r \in Runs :
            /\ Signed(r) =>
                  ItemSet(ClaimsOf(token[r]).items) = ItemSet(payload[r])
            /\ Len(stdout[r]) >= 6 =>
                  /\ json_loads(stdout[r][6]).ok
                  /\ ItemSet(json_loads(stdout[r][6]).items)
                        = ItemSet(ClaimsOf(token[r]).items))
    /\ [][\A r \in Runs : Built(r) => payload'[r] = payload[r]]_vars

C9_PayloadPrinted ==
    \E r \in Runs : Done(r) /\ Len(stdout[r]) >= 6 /\ Built(r)

\* C10: jwt.encode is called once per run, before any output, and the
\* Token block, the PowerShell assignment, the curl header and the
\* simple-test.ps1 line, printed in that order after the banner, all show
\* the string that call returned.
C10_SignOnceThenShow ==
    \A r \in Runs :
        /\ signCalls[r] <= 1
        /\ stdout[r] # <<>> => signCalls[r] = 1 /\ Signed(r)
        /\ Done(r) => signCalls[r] = 1
        /\ Succeeded(r) => Len(stdout[r]) = 17
        /\ Len(stdout[r]) >= 3 =>
              /\ stdout[r][1] = NL \o T_Rule \o NL
              /\ stdout[r][2] = T_Title \o NL
              /\ stdout[r][3] = T_Rule \o NL
        /\ Shows(r, 4, T_TokenLabel, NL \o NL)
        /\ Shows(r, 10, T_PsAssign, QUOTE \o NL)
        /\ Shows(r, 14, T_CurlPrefix, T_CurlSuffix \o NL)
        /\ Shows(r, 16, T_ChangePrefix, QUOTE \o NL)

C10_AllFourShown ==
    \E r \in Runs : Len(stdout[r]) >= 16 /\ signCalls[r] = 1 /\ Signed(r)

=============================================================================
